---- MODULE Spec2Model ----
(***************************************************************************)
(* Model of .github/scripts/collect_activity_single_repo.py: one run of    *)
(* main() against a GitHub REST server.                                    *)
(*                                                                         *)
(* Time is counted in hours.  An ISO-8601 string is the record             *)
(* [local, off]: the wall-clock reading and its UTC offset ("Z" is off 0), *)
(* so that parsing it (ParseIso) is not the identity.  An optional value   *)
(* (Python None / a missing key) is the empty sequence, a present value v  *)
(* is <<v>>.  A text is a sequence of one-character strings.               *)
(*                                                                         *)
(* Of the listing items only the fields that decide control flow or that   *)
(* the collectors' size metrics come from are kept: number / sha, the      *)
(* timestamps, and the detail responses' statistics.                       *)
(***************************************************************************)
EXTENDS Integers, Sequences, FiniteSets, TLC

\* ------------------------------------------------------------ constants

\* per_page of both collectors
PerPage == 50
\* timedelta(hours=24)
WindowHours == 24

\* ------------------------------------------------------------ bounds

\* the clock reading datetime.now(timezone.utc) of the run
NowUtc == 100
\* listings hold at most MaxFullPages full pages and one item more
MaxFullPages == 2
\* requests the server answers with an error, per run
MaxFaults == 1
\* pull requests updated by other users between two page requests
MaxUpdates == 1

\* ------------------------------------------------------------ values

None == <<>>
Some(v) == <<v>>
IsNone(o) == o = <<>>
Val(o) == o[1]

\* the empty dict {}
EmptyDict == <<>>

\* dict.get(key)
Get(d, key) == IF key \in DOMAIN d THEN Some(d[key]) ELSE None

\* dict.get(key) or default
GetOr(d, key, default) == IF key \in DOMAIN d THEN d[key] ELSE default

Min(a, b) == IF a < b THEN a ELSE b

\* the instant t written with UTC offset off
Iso(t, off) == [local |-> t + off, off |-> off]

\* datetime.fromisoformat(s.replace("Z", "+00:00")): the instant of an
\* offset-aware reading
ParseIso(s) == s.local - s.off

\* Python truthiness of an optional text: None and "" are falsy
Falsy(o) == IsNone(o) \/ Val(o) = <<>>

RECURSIVE IndexOf(_, _, _)
\* str.find from position i (1-based), 0 when absent
IndexOf(s, ch, i) ==
    IF i > Len(s) THEN 0
    ELSE IF s[i] = ch THEN i
    ELSE IndexOf(s, ch, i + 1)

\* repository.split("/", 1)
SplitOnce(s) ==
    LET k == IndexOf(s, "/", 1) IN
    IF k = 0 THEN <<s>>
    ELSE <<SubSeq(s, 1, k - 1), SubSeq(s, k + 1, Len(s))>>

\* ------------------------------------------------------------ the server

\* The pull-request listing of shape <<n, c, a>>, most recently updated
\* first: n items with distinct numbers, the first c of them updated at or
\* after the cutoff (the c-th exactly at it, with ties), the others before
\* it; a > 0 puts a recently updated item out of order at position a.
PrListingOf(shape, cutoff) ==
    LET n == shape[1]
        c == shape[2]
        a == shape[3]
    IN [i \in 1..n |->
          [number |-> n + 1 - i,
           updated_at |->
              Iso(IF i <= c THEN cutoff + ((c - i) \div 7)
                  ELSE IF i = a THEN cutoff + 1
                  ELSE cutoff - 1 - ((i - c - 1) \div 7),
                  i % 2)]]

\* The kinds of commit items a listing can hold: which of the two dates
\* the item carries and on which side of the cutoff they lie.
CommitKinds ==
    {"author", "author_old", "committer", "committer_old", "nodate",
     "author_old_committer_new", "author_offset"}

CommitOfKind(sha, kind, cutoff) ==
    [sha |-> sha,
     author_date |->
        CASE kind = "author" -> Some(Iso(cutoff, 0))
          [] kind = "author_old" -> Some(Iso(cutoff - 1, 0))
          [] kind = "author_old_committer_new" -> Some(Iso(cutoff - 2, 1))
          [] kind = "author_offset" -> Some(Iso(cutoff - 1, 2))
          [] OTHER -> None,
     committer_date |->
        CASE kind = "committer" -> Some(Iso(cutoff + 1, 1))
          [] kind = "committer_old" -> Some(Iso(cutoff - 1, 1))
          [] kind = "author_old_committer_new" -> Some(Iso(cutoff + 3, 0))
          [] kind = "author" -> Some(Iso(cutoff + 2, 0))
          [] OTHER -> None]

\* The commit listing of shape <<n, p, kind>>: n commits, in no
\* particular order of date, all authored at or after the cutoff except
\* the one at position p, which is of the given kind; with p = 0 every
\* commit is of that kind.
CommitListingOf(shape, cutoff) ==
    LET n == shape[1]
        p == shape[2]
        kind == shape[3]
    IN [i \in 1..n |->
          IF p = 0 \/ i = p THEN CommitOfKind(i, kind, cutoff)
          ELSE [sha |-> i,
                author_date |-> Some(Iso(cutoff + ((i * 7) % 5), i % 2)),
                committer_date |-> Some(Iso(cutoff + 5, 0))]]

\* One page of a listing: items (page-1)*per_page+1 .. page*per_page
PageOf(listing, page, per_page) ==
    SubSeq(listing, (page - 1) * per_page + 1,
           Min(page * per_page, Len(listing)))

\* GET /repos/{owner}/{repo}/pulls/{number}: the size metrics of a pull
\* request
PullDetails(number) ==
    [additions |-> (number % 3) + 1, deletions |-> number % 2,
     changed_files |-> 1 + (number % 2), commits |-> 1]

\* GET commit["url"]: the statistics and the changed files of a commit
CommitDetails(sha) ==
    [stats |-> [additions |-> (sha % 3) + 1, deletions |-> sha % 2,
                total |-> (sha % 3) + 1 + (sha % 2)],
     files |-> [k \in 1..(1 + (sha % 2)) |-> k]]

\* ------------------------------------------------------------ the collectors' functions

\* a slip: the comparison made strict
PrAtOrAfter_Strict(updated_at, cutoff) == ParseIso(updated_at) > cutoff

\* updated_at >= since, on the parsed update time
PrAtOrAfter(updated_at, cutoff) == ParseIso(updated_at) >= cutoff

\* slips: the else branch leaves only the page, or only the item
OnBelowCutoff_Break == "break"
OnBelowCutoff_Continue == "continue"

\* What the else branch of the cutoff test does to the loops: "return"
\* leaves the operation, "break" the page, "continue" only the item.
OnBelowCutoff == "return"

\* try: github_get(...) except requests.RequestException: {}
DetailsOrEmpty(resp) == IF resp.ok THEN resp.body ELSE EmptyDict

\* the record appended for a kept pull request
PrRecord(pr, pr_details) ==
    [number |-> pr.number,
     updated_at |-> pr.updated_at,
     additions |-> Get(pr_details, "additions"),
     deletions |-> Get(pr_details, "deletions"),
     changed_files |-> Get(pr_details, "changed_files"),
     commits |-> Get(pr_details, "commits")]

\* a slip: the append inside the try block, so that a failure skips it
PrsAppended_DropOnFailure(acc, pr, resp) ==
    IF resp.ok THEN Append(acc, PrRecord(pr, resp.body)) ELSE acc

\* prs after a kept item whose detail request was answered by resp
PrsAppended(acc, pr, resp) == Append(acc, PrRecord(pr, DetailsOrEmpty(resp)))

\* a slip: only an empty page ends the paging
LastPage_OnlyEmpty(n, per_page) == n = 0

\* len(page) < per_page: this page is the last one
LastPage(n, per_page) == n < per_page

\* a slip: no fallback to the committer date
CommitDateIso_NoFallback(commit) ==
    IF ~Falsy(commit.author_date) THEN commit.author_date ELSE None

\* the author date, else the committer date, else None
CommitDateIso(commit) ==
    IF ~Falsy(commit.author_date) THEN commit.author_date
    ELSE IF ~Falsy(commit.committer_date) THEN commit.committer_date
    ELSE None

\* a slip: the reading compared without its UTC offset
CommitAtOrAfter_Local(commit_date_iso, cutoff) == commit_date_iso.local >= cutoff

\* commit_date >= since, on the parsed date
CommitAtOrAfter(commit_date_iso, cutoff) == ParseIso(commit_date_iso) >= cutoff

\* the record appended for a kept commit; files is always a list here
CommitRecord(commit, commit_date_iso, commit_details) ==
    LET stats == GetOr(commit_details, "stats", EmptyDict)
        files == GetOr(commit_details, "files", <<>>)
    IN [sha |-> commit.sha,
        date |-> commit_date_iso,
        additions |-> Get(stats, "additions"),
        deletions |-> Get(stats, "deletions"),
        total_changes |-> Get(stats, "total"),
        files_changed |-> Some(Len(files))]

\* commits after a kept item whose detail request was answered by resp
CommitsAppended(acc, commit, commit_date_iso, resp) ==
    Append(acc, CommitRecord(commit, commit_date_iso, DetailsOrEmpty(resp)))

\* a slip: a fatal error exits with status 0
FatalStatus_Zero == Some(0)

\* the exit status after a failed top-level call
FatalStatus == Some(1)

\* the document main prints
Report(repository, cutoff, pr_list, commit_list) ==
    [repo |-> repository, since |-> Iso(cutoff, 0),
     prs |-> pr_list, commits |-> commit_list]

\* ------------------------------------------------------------ state

VARIABLES
    environ,         \* os.environ: GITHUB_REPOSITORY and GITHUB_TOKEN
    pulls,           \* server: the pull requests, most recently updated first
    history,         \* server: the commits of the default branch
    failing,         \* server: the requests it answers with an error
    updates,         \* pull requests updated by others during the run
    pc,              \* where the run stands
    since,           \* main: the cutoff, once computed
    default_branch,  \* main: the default branch, once resolved
    pr_page,         \* get_prs_since: page
    page_prs,        \* get_prs_since: page_prs
    pr_idx,          \* get_prs_since: position of the for loop in page_prs
    prs,             \* get_prs_since: prs
    prs_exit,        \* how get_prs_since was left
    c_page,          \* get_commits_since: page
    page_commits,    \* get_commits_since: page_commits
    c_idx,           \* get_commits_since: position of the for loop
    commits,         \* get_commits_since: commits
    commits_exit,    \* how get_commits_since was left
    requests,        \* every request issued, in order, with its answer
    stdout,          \* what was printed to standard output
    stderr,          \* what was printed to standard error
    exit_code        \* the exit status, once the process has ended

vars ==
    <<environ, pulls, history, failing, updates, pc, since, default_branch,
      pr_page, page_prs, pr_idx, prs, prs_exit,
      c_page, page_commits, c_idx, commits, commits_exit,
      requests, stdout, stderr, exit_code>>

serverVars == <<pulls, history, failing, updates>>
prLocals == <<pr_page, page_prs, pr_idx, prs, prs_exit>>
commitLocals == <<c_page, page_commits, c_idx, commits, commits_exit>>

\* ------------------------------------------------------------ initial states

Cutoff == NowUtc - WindowHours

Sizes == {0, 1, PerPage, PerPage + 1, MaxFullPages * PerPage + 1}

RichPrShapes ==
    {sh \in Sizes \X (0..(MaxFullPages * PerPage + 1))
               \X (0..(MaxFullPages * PerPage + 1)) :
        /\ sh[2] \in {0, 1, PerPage, PerPage + 1, PerPage + (PerPage \div 2), sh[1]}
        /\ sh[2] <= sh[1]
        /\ sh[3] \in {0, sh[2] + 2, PerPage + 1}
        /\ sh[3] > 0 => (sh[3] >= sh[2] + 2 /\ sh[3] <= sh[1])}

SmallPrShapes == {<<1, 1, 0>>}

RichCommitShapes ==
    {sh \in Sizes \X (0..(MaxFullPages * PerPage + 1)) \X CommitKinds :
        \/ sh[1] = 0 /\ sh[2] = 0 /\ sh[3] = "author"
        \/ sh[1] > 0 /\ sh[2] \in {0, 1, PerPage} /\ sh[2] <= sh[1]}

SmallCommitShapes == {<<1, 1, "author">>}

\* the requests of the run that the server may answer with an error
PrFaultSites(listing) ==
    {<<"repo", 0>>}
    \cup {<<"pulls", p>> : p \in 1..(MaxFullPages + 1)}
    \cup {<<"pull", listing[i].number>> : i \in {1, 2, PerPage} \cap DOMAIN listing}

CommitFaultSites(listing) ==
    {<<"commits", p>> : p \in 1..(MaxFullPages + 1)}
    \cup {<<"commit", listing[i].sha>> : i \in {1, 2, PerPage} \cap DOMAIN listing}

FaultPlans(sites) == {f \in SUBSET sites : Cardinality(f) <= MaxFaults}

Texts == {<<>>, <<"o", "/", "r">>, <<"r">>}

Environs ==
    [GITHUB_REPOSITORY : {None} \cup {Some(t) : t \in Texts},
     GITHUB_TOKEN : {None, Some(<<>>), Some(<<"t">>)}]

GoodEnviron ==
    [GITHUB_REPOSITORY |-> Some(<<"o", "/", "r">>), GITHUB_TOKEN |-> Some(<<"t">>)]

InitProcess ==
    /\ updates = 0
    /\ pc = "main"
    /\ since = None
    /\ default_branch = None
    /\ pr_page = 1 /\ page_prs = <<>> /\ pr_idx = 1 /\ prs = <<>>
    /\ prs_exit = "none"
    /\ c_page = 1 /\ page_commits = <<>> /\ c_idx = 1 /\ commits = <<>>
    /\ commits_exit = "none"
    /\ requests = <<>>
    /\ stdout = <<>>
    /\ stderr = <<>>
    /\ exit_code = None

\* any configuration, a small repository, a healthy server
InitConfig ==
    /\ environ \in Environs
    /\ pulls \in {PrListingOf(sh, Cutoff) : sh \in SmallPrShapes}
    /\ history \in {CommitListingOf(sh, Cutoff) : sh \in SmallCommitShapes}
    /\ failing = {}

\* any pull-request listing and faults on its requests
InitPulls ==
    /\ environ = GoodEnviron
    /\ pulls \in {PrListingOf(sh, Cutoff) : sh \in RichPrShapes}
    /\ history \in {CommitListingOf(sh, Cutoff) : sh \in SmallCommitShapes}
    /\ failing \in FaultPlans(PrFaultSites(pulls))

\* any commit listing and faults on its requests
InitHistory ==
    /\ environ = GoodEnviron
    /\ pulls \in {PrListingOf(sh, Cutoff) : sh \in SmallPrShapes}
    /\ history \in {CommitListingOf(sh, Cutoff) : sh \in RichCommitShapes}
    /\ failing \in FaultPlans(CommitFaultSites(history))

Init == InitProcess /\ (InitConfig \/ InitPulls \/ InitHistory)

\* ------------------------------------------------------------ steps

\* now - timedelta(hours=24)
SinceOf(now) == now - WindowHours

\* github_get: the server's answer to req; an error answer raises
\* requests.RequestException in the caller
Respond(req, body) ==
    [ok |-> req \notin failing, body |-> IF req \in failing THEN <<>> ELSE body]

Logged(req, resp, n) == [req |-> req, ok |-> resp.ok, n |-> n]

Message(level, what, key) == [level |-> level, what |-> what, key |-> key]

\* print(..., file=sys.stderr); sys.exit(1)
Die(what) ==
    /\ stderr' = Append(stderr, Message("Error", what, 0))
    /\ exit_code' = FatalStatus
    /\ pc' = "done"
    /\ UNCHANGED stdout

\* main, up to the cutoff: the configuration is read and checked
MainStart ==
    /\ pc = "main"
    /\ IF Falsy(environ.GITHUB_REPOSITORY)
          THEN Die("GITHUB_REPOSITORY") /\ UNCHANGED since
       ELSE IF Falsy(environ.GITHUB_TOKEN)
          THEN Die("GITHUB_TOKEN") /\ UNCHANGED since
       ELSE IF Len(SplitOnce(Val(environ.GITHUB_REPOSITORY))) # 2
          \* owner, repo = ... raises ValueError, which nothing catches
          THEN Die("Traceback") /\ UNCHANGED since
       ELSE /\ since' = Some(SinceOf(NowUtc))
            /\ pc' = "branch"
            /\ UNCHANGED <<stdout, stderr, exit_code>>
    /\ UNCHANGED <<environ, serverVars, default_branch, prLocals,
                   commitLocals, requests>>

\* main: get_default_branch, under try/except Exception
GetDefaultBranch ==
    /\ pc = "branch"
    /\ LET req == <<"repo", 0>>
           resp == Respond(req, [default_branch |-> "main"])
       IN /\ requests' = Append(requests, Logged(req, resp, 0))
          /\ IF resp.ok
                THEN /\ default_branch' = Some(resp.body.default_branch)
                     /\ pc' = "prs_page"
                     /\ UNCHANGED <<stdout, stderr, exit_code>>
                ELSE Die("default branch") /\ UNCHANGED default_branch
    /\ UNCHANGED <<environ, serverVars, since, prLocals, commitLocals>>

\* get_prs_since: one turn of the while loop up to the for loop. A failed
\* listing request leaves the function by the exception, which main
\* catches; an empty page leaves the loop and returns prs.
GetPrsPage ==
    /\ pc = "prs_page"
    /\ LET req == <<"pulls", pr_page>>
           resp == Respond(req, PageOf(pulls, pr_page, PerPage))
       IN /\ requests' = Append(requests, Logged(req, resp, Len(resp.body)))
          /\ IF ~resp.ok
                THEN /\ Die("PRs")
                     /\ prs_exit' = "raised"
                     /\ UNCHANGED <<page_prs, pr_idx>>
                ELSE IF resp.body = <<>>
                THEN /\ prs_exit' = "empty"
                     /\ pc' = "commits_page"
                     /\ UNCHANGED <<page_prs, pr_idx, stdout, stderr, exit_code>>
                ELSE /\ page_prs' = resp.body
                     /\ pr_idx' = 1
                     /\ pc' = "prs_item"
                     /\ UNCHANGED <<prs_exit, stdout, stderr, exit_code>>
    /\ UNCHANGED <<environ, serverVars, since, default_branch, pr_page, prs,
                   commitLocals>>

\* get_prs_since: the body of the for loop for one item
PrsItem ==
    /\ pc = "prs_item"
    /\ pr_idx <= Len(page_prs)
    /\ LET pr == page_prs[pr_idx] IN
       IF PrAtOrAfter(pr.updated_at, Val(since))
       THEN LET req == <<"pull", pr.number>>
                resp == Respond(req, PullDetails(pr.number))
            IN /\ requests' = Append(requests, Logged(req, resp, 0))
               /\ stderr' = IF resp.ok THEN stderr
                             ELSE Append(stderr, Message("Warning", "pull", pr.number))
               /\ prs' = PrsAppended(prs, pr, resp)
               /\ pr_idx' = pr_idx + 1
               /\ UNCHANGED <<pc, prs_exit>>
       ELSE /\ CASE OnBelowCutoff = "return" ->
                      /\ prs_exit' = "cutoff"
                      /\ pc' = "commits_page"
                      /\ UNCHANGED pr_idx
                 [] OnBelowCutoff = "break" ->
                      /\ pr_idx' = Len(page_prs) + 1
                      /\ UNCHANGED <<pc, prs_exit>>
                 [] OTHER ->
                      /\ pr_idx' = pr_idx + 1
                      /\ UNCHANGED <<pc, prs_exit>>
            /\ UNCHANGED <<requests, stderr, prs>>
    /\ UNCHANGED <<environ, serverVars, since, default_branch, pr_page,
                   page_prs, commitLocals, stdout, exit_code>>

\* get_prs_since: after the for loop, the last page returns and a full
\* page moves on to the next
PrsPageEnd ==
    /\ pc = "prs_item"
    /\ pr_idx > Len(page_prs)
    /\ IF LastPage(Len(page_prs), PerPage)
          THEN /\ prs_exit' = "short"
               /\ pc' = "commits_page"
               /\ UNCHANGED pr_page
          ELSE /\ pr_page' = pr_page + 1
               /\ pc' = "prs_page"
               /\ UNCHANGED prs_exit
    /\ UNCHANGED <<environ, serverVars, since, default_branch, page_prs,
                   pr_idx, prs, commitLocals, requests, stdout, stderr,
                   exit_code>>

\* get_commits_since: one turn of the while loop up to the for loop
GetCommitsPage ==
    /\ pc = "commits_page"
    /\ LET req == <<"commits", c_page>>
           resp == Respond(req, PageOf(history, c_page, PerPage))
       IN /\ requests' = Append(requests, Logged(req, resp, Len(resp.body)))
          /\ IF ~resp.ok
                THEN /\ Die("commits")
                     /\ commits_exit' = "raised"
                     /\ UNCHANGED <<page_commits, c_idx>>
                ELSE IF resp.body = <<>>
                THEN /\ commits_exit' = "empty"
                     /\ pc' = "output"
                     /\ UNCHANGED <<page_commits, c_idx, stdout, stderr, exit_code>>
                ELSE /\ page_commits' = resp.body
                     /\ c_idx' = 1
                     /\ pc' = "commits_item"
                     /\ UNCHANGED <<commits_exit, stdout, stderr, exit_code>>
    /\ UNCHANGED <<environ, serverVars, since, default_branch, prLocals,
                   c_page, commits>>

\* get_commits_since: the body of the for loop for one item
CommitsItem ==
    /\ pc = "commits_item"
    /\ c_idx <= Len(page_commits)
    /\ LET commit == page_commits[c_idx]
           commit_date_iso == CommitDateIso(commit)
       IN IF Falsy(commit_date_iso)
          THEN UNCHANGED <<requests, stderr, commits>>
          ELSE IF CommitAtOrAfter(Val(commit_date_iso), Val(since))
          THEN LET req == <<"commit", commit.sha>>
                   resp == Respond(req, CommitDetails(commit.sha))
               IN /\ requests' = Append(requests, Logged(req, resp, 0))
                  /\ stderr' = IF resp.ok THEN stderr
                                ELSE Append(stderr, Message("Warning", "commit", commit.sha))
                  /\ commits' = CommitsAppended(commits, commit, Val(commit_date_iso), resp)
          ELSE UNCHANGED <<requests, stderr, commits>>
    /\ c_idx' = c_idx + 1
    /\ UNCHANGED <<environ, serverVars, pc, since, default_branch, prLocals,
                   c_page, page_commits, commits_exit, stdout, exit_code>>

\* get_commits_since: after the for loop
CommitsPageEnd ==
    /\ pc = "commits_item"
    /\ c_idx > Len(page_commits)
    /\ IF LastPage(Len(page_commits), PerPage)
          THEN /\ commits_exit' = "short"
               /\ pc' = "output"
               /\ UNCHANGED c_page
          ELSE /\ c_page' = c_page + 1
               /\ pc' = "commits_page"
               /\ UNCHANGED commits_exit
    /\ UNCHANGED <<environ, serverVars, since, default_branch, prLocals,
                   page_commits, c_idx, commits, requests, stdout, stderr,
                   exit_code>>

\* main: the report is printed and the process ends
MainOutput ==
    /\ pc = "output"
    /\ stdout' = Append(stdout,
                        Report(Val(environ.GITHUB_REPOSITORY), Val(since),
                               prs, commits))
    /\ exit_code' = Some(0)
    /\ pc' = "done"
    /\ UNCHANGED <<environ, serverVars, since, default_branch, prLocals,
                   commitLocals, requests, stderr>>

\* The positions of the listing whose update the next page request can
\* see: the first item of the page to come and the last of the listing.
UpdateCandidates == {(pr_page - 1) * PerPage + 1, Len(pulls)} \cap DOMAIN pulls

\* Server: someone updates a pull request between two page requests of
\* get_prs_since; it moves to the front of the listing.
PrUpdated ==
    /\ pc = "prs_page"
    /\ pr_page > 1
    /\ updates < MaxUpdates
    /\ \E i \in UpdateCandidates :
          pulls' = <<[pulls[i] EXCEPT !.updated_at = Iso(NowUtc, 0)]>>
                   \o SubSeq(pulls, 1, i - 1)
                   \o SubSeq(pulls, i + 1, Len(pulls))
    /\ updates' = updates + 1
    /\ UNCHANGED <<environ, history, failing, pc, since, default_branch,
                   prLocals, commitLocals, requests, stdout, stderr, exit_code>>

Next ==
    \/ MainStart
    \/ GetDefaultBranch
    \/ GetPrsPage
    \/ PrsItem
    \/ PrsPageEnd
    \/ GetCommitsPage
    \/ CommitsItem
    \/ CommitsPageEnd
    \/ MainOutput
    \/ PrUpdated

Spec == Init /\ [][Next]_vars

\* ------------------------------------------------------------ properties

IsPrefix(p, q) == Len(p) <= Len(q) /\ SubSeq(q, 1, Len(p)) = p

\* the listing did not change while it was paged through
Static == updates = 0

\* the listing is in descending order of update time
Descending(listing) ==
    \A i \in 1..(Len(listing) - 1) :
        ParseIso(listing[i].updated_at) >= ParseIso(listing[i + 1].updated_at)

\* get_prs_since has returned a list, get_commits_since has
PrsReturned == prs_exit \in {"cutoff", "short", "empty"}
CommitsReturned == commits_exit \in {"short", "empty"}

\* the identity of the items of a sequence of records or listing items
PrKeys(q) == [i \in DOMAIN q |-> <<q[i].number, q[i].updated_at>>]

\* the timestamp of a commit item: the author date, else the committer date
Resolved(c) == IF c.author_date # None THEN c.author_date ELSE c.committer_date

\* the requests of the log of one kind
OfKind(kind) == SelectSeq(requests, LAMBDA r : r.req[1] = kind)

\* the positions of a listing below the cutoff
Below(listing) ==
    {i \in DOMAIN listing : ParseIso(listing[i].updated_at) < Cutoff}

FirstBelow(listing) ==
    CHOOSE i \in Below(listing) : \A j \in Below(listing) : i <= j

\* C1: for a listing served in descending order of update time that does
\* not change during the run, what get_prs_since returns is exactly the
\* listed items updated at or after the cutoff, each once, in listing order.
C1_PrsExact ==
    (PrsReturned /\ Static /\ Descending(pulls)) =>
        PrKeys(prs) =
            PrKeys(SelectSeq(pulls,
                             LAMBDA pr : ParseIso(pr.updated_at) >= Val(since)))

\* C1: a three-page listing whose cutoff falls in the middle of page two
\* has been collected, and an item updated exactly at the cutoff was kept.
C1_Witness ==
    /\ prs_exit = "cutoff" /\ Static /\ Descending(pulls)
    /\ Len(pulls) > 2 * PerPage
    /\ pr_page = 2 /\ pr_idx > 2
    /\ ParseIso(prs[Len(prs)].updated_at) = Val(since)

\* C2: what get_commits_since returns is exactly the listed commits whose
\* timestamp (author date, else committer date) exists and is at or after
\* the cutoff, in listing order; a commit with neither date is absent and
\* the commits after it are still processed.
C2_CommitsExact ==
    CommitsReturned =>
        LET kept == SelectSeq(history,
                              LAMBDA c : /\ Resolved(c) # None
                                         /\ ParseIso(Val(Resolved(c))) >= Val(since))
        IN [i \in DOMAIN commits |-> <<commits[i].sha, commits[i].date>>]
           = [i \in DOMAIN kept |-> <<kept[i].sha, Val(Resolved(kept[i]))>>]

\* C2: a commit with neither date was passed over, a commit listed after
\* it was returned, and so was one that has only a committer date.
C2_Witness ==
    /\ CommitsReturned
    /\ \E i, j \in DOMAIN history :
          /\ i < j
          /\ Resolved(history[i]) = None
          /\ \E k \in DOMAIN commits : commits[k].sha = history[j].sha
          /\ \A k \in DOMAIN commits : commits[k].sha # history[i].sha

\* C2: a commit that has only a committer date was returned with it.
C2_WitnessFallback ==
    /\ CommitsReturned
    /\ \E i \in DOMAIN history, k \in DOMAIN commits :
          /\ history[i].author_date = None
          /\ commits[k].sha = history[i].sha
          /\ commits[k].date = Val(history[i].committer_date)

\* the for loop of get_prs_since stands at a kept item whose detail
\* request the server will fail
AtFailingPr ==
    /\ pc = "prs_item" /\ pr_idx \in DOMAIN page_prs
    /\ ParseIso(page_prs[pr_idx].updated_at) >= Val(since)
    /\ <<"pull", page_prs[pr_idx].number>> \in failing

\* the same for get_commits_since
AtFailingCommit ==
    /\ pc = "commits_item" /\ c_idx \in DOMAIN page_commits
    /\ Resolved(page_commits[c_idx]) # None
    /\ ParseIso(Val(Resolved(page_commits[c_idx]))) >= Val(since)
    /\ <<"commit", page_commits[c_idx].sha>> \in failing

\* C3: the step that processes a kept item whose detail request fails
\* appends that item, issues that one request once, ends neither the
\* collection nor the process, and leaves the loop where a successful
\* request would have left it: at the next item of the same page.
C3_FailureTolerated ==
    [][/\ AtFailingPr =>
            /\ Len(prs') = Len(prs) + 1
            /\ SubSeq(prs', 1, Len(prs)) = prs
            /\ prs'[Len(prs')].number = page_prs[pr_idx].number
            /\ Len(requests') = Len(requests) + 1
            /\ requests'[Len(requests')].req = <<"pull", page_prs[pr_idx].number>>
            /\ pc' = "prs_item" /\ pr_idx' = pr_idx + 1
            /\ pr_page' = pr_page /\ page_prs' = page_prs
            /\ prs_exit' = "none" /\ exit_code' = None
       /\ AtFailingCommit =>
            /\ Len(commits') = Len(commits) + 1
            /\ SubSeq(commits', 1, Len(commits)) = commits
            /\ commits'[Len(commits')].sha = page_commits[c_idx].sha
            /\ Len(requests') = Len(requests) + 1
            /\ requests'[Len(requests')].req = <<"commit", page_commits[c_idx].sha>>
            /\ pc' = "commits_item" /\ c_idx' = c_idx + 1
            /\ c_page' = c_page /\ page_commits' = page_commits
            /\ commits_exit' = "none" /\ exit_code' = None]_vars

\* C3: a run has ended with its report printed in which a pull request
\* whose detail request failed is reported, followed by the pull requests
\* listed after it up to the third page; the request was issued once.
C3_Witness ==
    /\ pc = "done" /\ exit_code = Some(0)
    /\ Len(stdout[1].prs) > 2 * PerPage
    /\ \E i \in DOMAIN stdout[1].prs :
          /\ i < PerPage
          /\ <<"pull", stdout[1].prs[i].number>> \in failing
          /\ Len(SelectSeq(requests,
                 LAMBDA r : r.req = <<"pull", stdout[1].prs[i].number>>)) = 1

\* C3: the same for a commit whose detail request failed.
C3_WitnessCommit ==
    /\ pc = "done" /\ exit_code = Some(0)
    /\ Len(stdout[1].commits) > 2 * PerPage
    /\ \E i \in DOMAIN stdout[1].commits :
          /\ i < PerPage
          /\ <<"commit", stdout[1].commits[i].sha>> \in failing
          /\ Len(SelectSeq(requests,
                 LAMBDA r : r.req = <<"commit", stdout[1].commits[i].sha>>)) = 1

\* C4: every size metric of a record whose detail request failed is null
\* (fails: files_changed of such a commit is 0).
C4_MetricsNull ==
    /\ \A i \in DOMAIN prs :
          <<"pull", prs[i].number>> \in failing =>
             /\ prs[i].additions = None /\ prs[i].deletions = None
             /\ prs[i].changed_files = None /\ prs[i].commits = None
    /\ \A i \in DOMAIN commits :
          <<"commit", commits[i].sha>> \in failing =>
             /\ commits[i].additions = None /\ commits[i].deletions = None
             /\ commits[i].total_changes = None
             /\ commits[i].files_changed = None

\* C4: what does hold of a record whose detail request failed: every
\* size metric but files_changed is null, and files_changed of a commit
\* is the number 0.
C4_NullButFilesChanged ==
    /\ \A i \in DOMAIN prs :
          <<"pull", prs[i].number>> \in failing =>
             /\ prs[i].additions = None /\ prs[i].deletions = None
             /\ prs[i].changed_files = None /\ prs[i].commits = None
    /\ \A i \in DOMAIN commits :
          <<"commit", commits[i].sha>> \in failing =>
             /\ commits[i].additions = None /\ commits[i].deletions = None
             /\ commits[i].total_changes = None
             /\ commits[i].files_changed = Some(0)

\* the requests whose failure is fatal
Fatal(r) == ~r.ok /\ r.req[1] \in {"repo", "pulls", "commits"}

\* C5: the report is on standard output exactly when the process has
\* ended with status 0; with GITHUB_REPOSITORY or GITHUB_TOKEN missing the
\* process ends with status 1 having issued no request; a failed
\* default-branch or listing-page request is the last request of the run,
\* which then has ended with status 1 and an empty standard output.
C5_ExitAndOutput ==
    /\ Len(stdout) <= 1
    /\ stdout # <<>> <=> exit_code = Some(0)
    /\ pc = "done" <=> exit_code # None
    /\ exit_code \in {None, Some(0), Some(1)}
    /\ (Falsy(environ.GITHUB_REPOSITORY) \/ Falsy(environ.GITHUB_TOKEN)) =>
          /\ requests = <<>>
          /\ pc = "done" => exit_code = Some(1)
    /\ \A i \in DOMAIN requests :
          Fatal(requests[i]) =>
             /\ i = Len(requests)
             /\ pc = "done" /\ exit_code = Some(1) /\ stdout = <<>>

\* C5: the request for the second page of pull requests failed after a
\* full page of items had been accumulated, and the process has ended.
C5_Witness ==
    /\ pc = "done" /\ exit_code = Some(1) /\ stdout = <<>>
    /\ Len(prs) = PerPage
    /\ requests[Len(requests)] = [req |-> <<"pulls", 2>>, ok |-> FALSE, n |-> 0]

\* C5: the process has ended with status 1 for want of a token.
C5_WitnessConfig ==
    /\ pc = "done" /\ exit_code = Some(1) /\ requests = <<>>
    /\ ~Falsy(environ.GITHUB_REPOSITORY) /\ Falsy(environ.GITHUB_TOKEN)

\* C6: in every state every accumulated pull-request record was updated
\* at or after the cutoff and every accumulated commit record is dated at
\* or after it, whatever the server listed; and a step only ever appends
\* to the two sequences.
C6_OnlyRecent ==
    /\ [](/\ \A i \in DOMAIN prs : ParseIso(prs[i].updated_at) >= Val(since)
          /\ \A i \in DOMAIN commits : ParseIso(commits[i].date) >= Val(since))
    /\ [][IsPrefix(prs, prs') /\ IsPrefix(commits, commits')]_vars

\* C6: a listing out of order and a commit whose date reads later than
\* the cutoff but lies before it have been worked through.
C6_Witness ==
    /\ pc = "done" /\ exit_code = Some(0)
    /\ prs # <<>> /\ commits # <<>>
    /\ \E i \in DOMAIN history :
          /\ history[i].author_date # None
          /\ Val(history[i].author_date).local > Val(since)
          /\ ParseIso(Val(history[i].author_date)) < Val(since)

\* C6: records were accumulated from a listing that is out of order.
C6_WitnessUnsorted == PrsReturned /\ ~Descending(pulls) /\ prs # <<>>

\* get_prs_since is not running (any more)
PrsOver == pc \in {"commits_page", "commits_item", "output", "done"}

\* C7: the step that meets an item updated before the cutoff leaves
\* get_prs_since with prs as accumulated and issues no request; and once
\* get_prs_since is left, no listing or detail request for pull requests
\* is issued.
C7_EarlyExit ==
    [][/\ (/\ pc = "prs_item" /\ pr_idx \in DOMAIN page_prs
            /\ ParseIso(page_prs[pr_idx].updated_at) < Val(since)) =>
               /\ PrsOver'
               /\ prs' = prs
               /\ requests' = requests
       /\ PrsOver =>
               /\ prs' = prs
               /\ \A i \in (Len(requests) + 1)..Len(requests') :
                     requests'[i].req[1] \in {"commits", "commit"}]_vars

\* C7: the cutoff was met in the middle of a full first page that had
\* items at or after the cutoff behind it, and the run has ended with one
\* listing request and one detail request per kept item.
C7_Witness ==
    /\ pc = "done" /\ prs_exit = "cutoff"
    /\ pr_page = 1 /\ Len(page_prs) = PerPage /\ pr_idx < PerPage
    /\ Len(pulls) > PerPage
    /\ Len(OfKind("pulls")) = 1
    /\ Len(OfKind("pull")) = Len(prs) /\ prs # <<>>

\* the listing requests of one kind, as far as the log tells: pages
\* 1, 2, 3, ... each once, every page but the last one answered in full
Paged(kind) ==
    LET q == OfKind(kind) IN
    /\ \A i \in DOMAIN q : q[i].req[2] = i
    /\ \A i \in DOMAIN q : i < Len(q) => (q[i].ok /\ q[i].n = PerPage)

\* a collector that returned did so after a page that was not full
EndedOnShortPage(kind) ==
    LET q == OfKind(kind) IN q # <<>> /\ q[Len(q)].ok /\ q[Len(q)].n < PerPage

\* C8: each collector requests pages 1, 2, 3, ... in order and once each,
\* the next one only after a full page (for pull requests: a full page
\* with no item before the cutoff); a collector returns only after a page
\* of fewer than 50 items, get_prs_since also at an item before the
\* cutoff; and every run ends.
C8_Pagination ==
    /\ [](/\ Paged("pulls") /\ Paged("commits")
          /\ prs_exit \in {"short", "empty"} => EndedOnShortPage("pulls")
          /\ CommitsReturned => EndedOnShortPage("commits")
          /\ Static =>
                \A p \in 1..(Len(OfKind("pulls")) - 1) :
                   \A i \in ((p - 1) * PerPage + 1)..(p * PerPage) :
                       i \notin Below(pulls))
    /\ <>(pc = "done")

\* C8: three pages of commits were requested although no commit of the
\* two full pages was kept, and the run has ended.
C8_Witness ==
    /\ pc = "done" /\ commits_exit = "short"
    /\ commits = <<>>
    /\ Len(OfKind("commits")) = 3
    /\ OfKind("commits")[3].n = 1

\* C9: when get_prs_since has returned from a listing that did not
\* change, the result is the records of the items listed before the first
\* one below the cutoff: an item at or after the cutoff listed behind that
\* one is not in the result, and standard error holds nothing about it.
C9_SilentDrop ==
    (PrsOver /\ PrsReturned /\ Static /\ Below(pulls) # {}) =>
        /\ PrKeys(prs) = PrKeys(SubSeq(pulls, 1, FirstBelow(pulls) - 1))
        /\ \A j \in DOMAIN pulls :
              (j > FirstBelow(pulls) /\ j \notin Below(pulls)) =>
                 /\ \A i \in DOMAIN prs : prs[i].number # pulls[j].number
                 /\ \A i \in DOMAIN stderr :
                       ~(stderr[i].what = "pull" /\ stderr[i].key = pulls[j].number)
                 /\ \A i \in DOMAIN requests :
                       requests[i].req # <<"pull", pulls[j].number>>

\* C9: a run has ended with status 0 and an empty standard error although
\* a pull request updated after the cutoff, listed on the second page
\* behind older ones, is not in the report.
C9_Witness ==
    /\ pc = "done" /\ exit_code = Some(0) /\ stderr = <<>> /\ Static
    /\ prs # <<>>
    /\ \E j \in DOMAIN pulls :
          /\ j > PerPage
          /\ Below(pulls) # {} /\ j > FirstBelow(pulls) /\ j \notin Below(pulls)
          /\ \A i \in DOMAIN stdout[1].prs : stdout[1].prs[i].number # pulls[j].number

\* C10: the numbers of the accumulated pull-request records are pairwise
\* distinct (fails when a pull request is updated between two page
\* requests).
C10_DistinctNumbers ==
    \A i, j \in DOMAIN prs : i # j => prs[i].number # prs[j].number

\* The process is single-threaded and every request returns or times out
\* (REQUEST_TIMEOUT): a step that can be taken is taken.
FairSpec == Spec /\ WF_vars(Next)

====
